---- MODULE Spec2Model ----
(***************************************************************************)
(* Configuration resolution of the route-tree generator                   *)
(* (packages/router-generator/src/config.ts): resolveConfigPath,          *)
(* readConfig, getConfig and validateConfig.                               *)
(*                                                                         *)
(* Strings are sequences of lexemes: "/" , "." , " " , or a maximal run   *)
(* of other characters, so "./src/routes" is                              *)
(* <<".", "/", "src", "/", "routes">>.  Path resolution, the extension    *)
(* regex, extname and trim are computed on that form.  Paths are POSIX.   *)
(*                                                                         *)
(* JavaScript values are tagged records: Undefined, Str(s), Bool(b),      *)
(* Obj(fields).  A raw configuration object (the inline overrides, the    *)
(* parsed content of a configuration file) is a function from the keys    *)
(* it has to tagged values.                                                *)
(*                                                                         *)
(* Of the schema's fields the model keeps the ones the pipeline reads or   *)
(* rewrites (routesDirectory, generatedRouteTree, disableTypes,            *)
(* indexToken, routeToken, routeFileIgnorePrefix, experimental), the       *)
(* nested customScaffolding, and disableLogging for the plain fields,      *)
(* which the schema all treats alike.                                      *)
(***************************************************************************)
EXTENDS Integers, Sequences, FiniteSets, TLC

VARIABLES
  fs,               \* the file system: absolute path -> content of the file
  pc,               \* "idle", "resolved", "importing", "awaiting", "returned", "failed"
  inlineConfig,     \* getConfig's first argument
  configDirectory,  \* getConfig's second argument, as passed
  queryDirectory,   \* resolveConfigPath's argument, when called on its own
  queryResult,      \* what that call returned
  configFilePath,   \* getConfig's local configFilePath
  fileSystemConfig, \* getConfig's local fileSystemConfig
  parsed,           \* getConfig's local config right after configSchema.parse
  config,           \* the Configuration getConfig returned
  error             \* the error getConfig failed with

vars == <<fs, pc, inlineConfig, configDirectory, queryDirectory, queryResult,
          configFilePath, fileSystemConfig, parsed, config, error>>

----------------------------------------------------------------------------
(* Bounds *)

MaxFileKeys == 2
MaxInlineKeys == 1

----------------------------------------------------------------------------
(* JavaScript values *)

Undefined == [t |-> "undefined"]
Str(s) == [t |-> "string", v |-> s]
Bool(b) == [t |-> "boolean", v |-> b]
Obj(f) == [t |-> "object", v |-> f]

IsDefined(x) == x.t # "undefined"

\* raw[k] of a JavaScript object: undefined when the key is missing
Get(raw, k) == IF k \in DOMAIN raw THEN raw[k] ELSE Undefined

----------------------------------------------------------------------------
(* node:path (POSIX) and String.prototype, on lexeme sequences *)

\* process.cwd()
cwd == <<"/", "work">>

\* path.isAbsolute
IsAbsolute(p) == Len(p) > 0 /\ p[1] = "/"

RECURSIVE SplitFrom(_, _, _)
SplitFrom(s, i, cur) ==
  IF i > Len(s) THEN <<cur>>
  ELSE IF s[i] = "/" THEN <<cur>> \o SplitFrom(s, i + 1, <<>>)
  ELSE SplitFrom(s, i + 1, Append(cur, s[i]))

\* the segments of a path, split at every separator
Segments(s) == SplitFrom(s, 1, <<>>)

RECURSIVE JoinSegments(_)
JoinSegments(segs) ==
  IF Len(segs) = 0 THEN <<>>
  ELSE IF Len(segs) = 1 THEN segs[1]
  ELSE segs[1] \o <<"/">> \o JoinSegments(Tail(segs))

RECURSIVE NormalizeFrom(_, _, _, _)
NormalizeFrom(segs, i, res, allowAboveRoot) ==
  IF i > Len(segs) THEN res
  ELSE LET seg == segs[i] IN
    IF seg = <<>> \/ seg = <<".">>
    THEN NormalizeFrom(segs, i + 1, res, allowAboveRoot)
    ELSE IF seg = <<".", ".">>
    THEN IF Len(res) > 0 /\ res[Len(res)] # <<".", ".">>
         THEN NormalizeFrom(segs, i + 1, SubSeq(res, 1, Len(res) - 1), allowAboveRoot)
         ELSE IF allowAboveRoot
         THEN NormalizeFrom(segs, i + 1, Append(res, seg), allowAboveRoot)
         ELSE NormalizeFrom(segs, i + 1, res, allowAboveRoot)
    ELSE NormalizeFrom(segs, i + 1, Append(res, seg), allowAboveRoot)

\* normalizeString of node:path: drops empty and "." segments, resolves ".."
NormalizeString(p, allowAboveRoot) ==
  JoinSegments(NormalizeFrom(Segments(p), 1, <<>>, allowAboveRoot))

RECURSIVE ResolveLoop(_, _, _, _)
ResolveLoop(args, i, resolvedPath, resolvedAbsolute) ==
  IF resolvedAbsolute \/ i < 0
  THEN [path |-> resolvedPath, absolute |-> resolvedAbsolute]
  ELSE LET p == IF i >= 1 THEN args[i] ELSE cwd IN
    IF Len(p) = 0
    THEN ResolveLoop(args, i - 1, resolvedPath, resolvedAbsolute)
    ELSE ResolveLoop(args, i - 1, p \o <<"/">> \o resolvedPath, p[1] = "/")

\* path.resolve(...args): right to left until an absolute path is built, the
\* working directory last; then normalized, without a trailing separator
PathResolve(args) ==
  LET r == ResolveLoop(args, Len(args), <<>>, FALSE)
      n == NormalizeString(r.path, ~r.absolute)
  IN IF r.absolute THEN <<"/">> \o n
     ELSE IF Len(n) > 0 THEN n ELSE <<".">>

RECURSIVE LastNonEmpty(_, _)
LastNonEmpty(segs, i) ==
  IF i = 0 THEN <<>>
  ELSE IF segs[i] # <<>> THEN segs[i]
  ELSE LastNonEmpty(segs, i - 1)

\* path.basename: the last segment, trailing separators ignored
BaseName(p) == LET segs == Segments(p) IN LastNonEmpty(segs, Len(segs))

RECURSIVE LastDot(_, _)
LastDot(s, i) ==
  IF i = 0 THEN 0
  ELSE IF s[i] = "." THEN i
  ELSE LastDot(s, i - 1)

\* path.extname: from the last dot of the basename; "" when there is none,
\* when it is the basename's first character, or for ".."
ExtName(p) ==
  LET b == BaseName(p)
      d == LastDot(b, Len(b))
  IN IF d <= 1 \/ b = <<".", ".">> THEN <<>>
     ELSE SubSeq(b, d, Len(b))

\* generatedRouteTree.replace(/\.(ts|tsx)$/, '.js')
ReplaceTypedExtension(s) ==
  IF Len(s) >= 2 /\ s[Len(s) - 1] = "." /\ s[Len(s)] \in {"ts", "tsx"}
  THEN SubSeq(s, 1, Len(s) - 2) \o <<".", "js">>
  ELSE s

RECURSIVE TrimStart(_)
TrimStart(s) ==
  IF Len(s) > 0 /\ s[1] = " " THEN TrimStart(Tail(s)) ELSE s

RECURSIVE TrimEnd(_)
TrimEnd(s) ==
  IF Len(s) > 0 /\ s[Len(s)] = " " THEN TrimEnd(SubSeq(s, 1, Len(s) - 1)) ELSE s

\* String.prototype.trim
Trim(s) == TrimEnd(TrimStart(s))

\* mutant of Truthy: the test inverted
TruthyInverted(s) == s = <<>>

\* mutant of Truthy: every string taken as truthy
TruthyAlways(s) == TRUE

\* a string in a condition: the empty string is falsy
Truthy(s) == s # <<>>

----------------------------------------------------------------------------
(* The schema: configSchema *)

\* defaultTemplate: the two built-in scaffolding templates, each one lexeme
defaultTemplate ==
  [routeTemplate |-> <<"defaultRouteTemplate">>,
   apiTemplate |-> <<"defaultApiTemplate">>]

StringKeys ==
  {"routeFileIgnorePrefix", "routesDirectory", "generatedRouteTree",
   "indexToken", "routeToken"}
BooleanKeys == {"disableTypes", "disableLogging"}
TemplateKeys == {"routeTemplate", "apiTemplate"}
Keys == StringKeys \cup BooleanKeys \cup {"customScaffolding", "experimental"}

\* mutant of SchemaDefault: the generated tree defaults to the directory's root
SchemaDefaultRootTree(k) ==
  CASE k = "routeFileIgnorePrefix" -> <<"-">>
    [] k = "routesDirectory" -> <<".", "/", "src", "/", "routes">>
    [] k = "generatedRouteTree" -> <<".", "/", "routeTree", ".", "gen", ".", "ts">>
    [] k = "disableTypes" -> FALSE
    [] k = "disableLogging" -> FALSE
    [] k = "indexToken" -> <<"index">>
    [] k = "routeToken" -> <<"route">>
    [] k = "customScaffolding" -> defaultTemplate
    [] k = "experimental" -> Undefined

\* .default(...) of each field; experimental has none
SchemaDefault(k) ==
  CASE k = "routeFileIgnorePrefix" -> <<"-">>
    [] k = "routesDirectory" -> <<".", "/", "src", "/", "routes">>
    [] k = "generatedRouteTree" ->
         <<".", "/", "src", "/", "routeTree", ".", "gen", ".", "ts">>
    [] k = "disableTypes" -> FALSE
    [] k = "disableLogging" -> FALSE
    [] k = "indexToken" -> <<"index">>
    [] k = "routeToken" -> <<"route">>
    [] k = "customScaffolding" -> defaultTemplate
    [] k = "experimental" -> Undefined

\* does value x have the shape the schema declares for field k (x defined)
ShapeOk(k, x) ==
  CASE k \in StringKeys -> x.t = "string"
    [] k \in BooleanKeys -> x.t = "boolean"
    [] k = "customScaffolding" ->
         /\ x.t = "object"
         /\ \A f \in TemplateKeys : x.v[f].t \in {"undefined", "string"}
    [] k = "experimental" ->
         /\ x.t = "object"
         /\ x.v.enableCodeSplitting.t \in {"undefined", "boolean"}

\* the parsed value of field k from the defined, well-shaped value x
ParseValue(k, x) ==
  CASE k = "customScaffolding" ->
         [f \in TemplateKeys |->
            IF IsDefined(x.v[f]) THEN x.v[f].v ELSE defaultTemplate[f]]
    [] k = "experimental" -> x
    [] OTHER -> x.v

\* z.<type>().optional().default(d): undefined takes the default
ParseField(k, x) == IF IsDefined(x) THEN ParseValue(k, x) ELSE SchemaDefault(k)

\* configSchema.parse(raw): fails when a defined value has the wrong shape
SchemaParse(raw) ==
  IF \A k \in Keys : IsDefined(Get(raw, k)) => ShapeOk(k, Get(raw, k))
  THEN [ok |-> TRUE, value |-> [k \in Keys |-> ParseField(k, Get(raw, k))]]
  ELSE [ok |-> FALSE, value |-> <<>>]

----------------------------------------------------------------------------
(* resolveConfigPath, readConfig, getConfig, validateConfig *)

JsConfigName == <<"tsr", ".", "config", ".", "js">>
JsonConfigName == <<"tsr", ".", "config", ".", "json">>

\* existsSync(p)
ExistsSync(p) == p \in DOMAIN fs

\* mutant of ResolveConfigPath: the script module is looked for first
ResolveConfigPathScriptFirst(dir) ==
  LET jsConfigPath == PathResolve(<<dir, JsConfigName>>)
      jsonConfigPath == PathResolve(<<dir, JsonConfigName>>)
  IN IF ExistsSync(jsConfigPath) THEN Str(jsConfigPath)
     ELSE IF ExistsSync(jsonConfigPath) THEN Str(jsonConfigPath)
     ELSE Undefined

ResolveConfigPath(dir) ==
  LET jsConfigPath == PathResolve(<<dir, JsConfigName>>)
      jsonConfigPath == PathResolve(<<dir, JsonConfigName>>)
  IN IF ExistsSync(jsonConfigPath) THEN Str(jsonConfigPath)
     ELSE IF ExistsSync(jsConfigPath) THEN Str(jsConfigPath)
     ELSE Undefined

\* the keys of readConfig
LoaderExtensions == {<<".", "json">>, <<".", "js">>}

\* if (configDirectory === undefined) configDirectory = process.cwd()
DefaultedDirectory(dirArg) == IF IsDefined(dirArg) THEN dirArg.v ELSE cwd

\* mutant of Merge: the spread in the other order
MergeFileWins(fileRaw, inlineRaw) ==
  [k \in DOMAIN fileRaw \cup DOMAIN inlineRaw |->
     IF k \in DOMAIN fileRaw THEN fileRaw[k] ELSE inlineRaw[k]]

\* mutant of Merge: customScaffolding merged field by field
MergeDeep(fileRaw, inlineRaw) ==
  [k \in DOMAIN fileRaw \cup DOMAIN inlineRaw |->
     IF k \in DOMAIN inlineRaw
     THEN IF /\ k = "customScaffolding"
             /\ k \in DOMAIN fileRaw
             /\ inlineRaw[k].t = "object"
             /\ fileRaw[k].t = "object"
          THEN Obj([f \in TemplateKeys |->
                      IF IsDefined(inlineRaw[k].v[f]) THEN inlineRaw[k].v[f]
                      ELSE fileRaw[k].v[f]])
          ELSE inlineRaw[k]
     ELSE fileRaw[k]]

\* { ...fileSystemConfig, ...inlineConfig }
Merge(fileRaw, inlineRaw) ==
  [k \in DOMAIN fileRaw \cup DOMAIN inlineRaw |->
     IF k \in DOMAIN inlineRaw THEN inlineRaw[k] ELSE fileRaw[k]]

\* if (config.disableTypes) generatedRouteTree = generatedRouteTree.replace(...)
RewriteExtension(c) ==
  IF c.disableTypes
  THEN [c EXCEPT !.generatedRouteTree = ReplaceTypedExtension(@)]
  ELSE c

\* path.resolve(configDirectory, p) under an absolute configDirectory,
\* path.resolve(process.cwd(), configDirectory, p) under a relative one
ResolveAgainst(dir, p) ==
  IF IsAbsolute(dir) THEN PathResolve(<<dir, p>>)
  ELSE PathResolve(<<cwd, dir, p>>)

\* if (configDirectory) { ... }
NormalizePaths(c, dir) ==
  IF Truthy(dir)
  THEN [c EXCEPT !.routesDirectory = ResolveAgainst(dir, @),
                 !.generatedRouteTree = ResolveAgainst(dir, @)]
  ELSE c

\* config.experimental?.enableCodeSplitting
EnableCodeSplitting(c) ==
  IF IsDefined(c.experimental) THEN c.experimental.v.enableCodeSplitting
  ELSE Undefined

\* mutant of ValidateConfig: the deprecated flag tested for truthiness
ValidateConfigTruthyFlag(c) ==
  IF EnableCodeSplitting(c) = Bool(TRUE) THEN "DeprecatedFlag"
  ELSE IF c.indexToken = c.routeToken THEN "TokenCollision"
  ELSE IF c.routeFileIgnorePrefix # <<>> /\ Trim(c.routeFileIgnorePrefix) = <<"_">>
  THEN "ReservedIgnorePrefix"
  ELSE "none"

\* mutant of ValidateConfig: the ignore prefix checked before the tokens
ValidateConfigPrefixFirst(c) ==
  IF IsDefined(EnableCodeSplitting(c)) THEN "DeprecatedFlag"
  ELSE IF c.routeFileIgnorePrefix # <<>> /\ Trim(c.routeFileIgnorePrefix) = <<"_">>
  THEN "ReservedIgnorePrefix"
  ELSE IF c.indexToken = c.routeToken THEN "TokenCollision"
  ELSE "none"

\* mutant of ValidateConfig: the tokens checked before the deprecated flag
ValidateConfigTokensFirst(c) ==
  IF c.indexToken = c.routeToken THEN "TokenCollision"
  ELSE IF IsDefined(EnableCodeSplitting(c)) THEN "DeprecatedFlag"
  ELSE IF c.routeFileIgnorePrefix # <<>> /\ Trim(c.routeFileIgnorePrefix) = <<"_">>
  THEN "ReservedIgnorePrefix"
  ELSE "none"

\* validateConfig: the error it throws, "none" when it returns
ValidateConfig(c) ==
  IF IsDefined(EnableCodeSplitting(c)) THEN "DeprecatedFlag"
  ELSE IF c.indexToken = c.routeToken THEN "TokenCollision"
  ELSE IF c.routeFileIgnorePrefix # <<>> /\ Trim(c.routeFileIgnorePrefix) = <<"_">>
  THEN "ReservedIgnorePrefix"
  ELSE "none"

\* getConfig from configSchema.parse to its return or throw
Complete(raw, dir) ==
  LET r == SchemaParse(raw) IN
  IF ~r.ok
  THEN /\ pc' = "failed"
       /\ error' = "SchemaViolation"
       /\ UNCHANGED <<parsed, config>>
  ELSE LET c == NormalizePaths(RewriteExtension(r.value), dir)
           e == ValidateConfig(c)
       IN /\ parsed' = Obj(r.value)
          /\ IF e = "none"
             THEN pc' = "returned" /\ config' = Obj(c) /\ UNCHANGED error
             ELSE pc' = "failed" /\ error' = e /\ UNCHANGED config

----------------------------------------------------------------------------
(* Inputs *)

ProjDir == <<"/", "proj">>
RelativeProjDir == <<".", ".", "/", "proj">>
ConfiguredRoutesPath == <<".", "/", "configured-routes-path">>

\* the directories a configuration file may sit in
FsDirectories == {ProjDir, cwd}

\* configDirectory as passed: omitted, empty, absolute, relative
DirectoryArgs == {Undefined, Str(<<>>), Str(ProjDir), Str(RelativeProjDir)}

Template(src, f) == Str(<<src \o "-" \o f>>)

\* the values a source ("file" or "inline") declares for a key
DeclaredValues(src, k) ==
  CASE k = "routesDirectory" ->
         IF src = "file" THEN {Str(<<"a">>), Str(ConfiguredRoutesPath)}
         ELSE {Str(<<"b">>)}
    [] k = "generatedRouteTree" ->
         {Str(<<".", "/", "tree", ".", "tsx">>),
          Str(<<".", "/", "tree", ".", "ts", "/">>)}
    [] k = "disableTypes" -> {Bool(TRUE), Bool(FALSE)}
    [] k = "disableLogging" -> {Bool(TRUE), Str(<<"yes">>)}
    [] k = "indexToken" -> {Str(<<"x">>), Str(<<"route">>)}
    [] k = "routeToken" -> {Str(<<"x">>)}
    [] k = "routeFileIgnorePrefix" ->
         {Str(<<"_">>), Str(<<" ", "_", " ">>), Str(<<>>)}
    [] k = "customScaffolding" ->
         {Obj([routeTemplate |-> Undefined, apiTemplate |-> Undefined]),
          Obj([routeTemplate |-> Template(src, "routeTemplate"),
               apiTemplate |-> Undefined]),
          Obj([routeTemplate |-> Undefined,
               apiTemplate |-> Template(src, "apiTemplate")])}
    [] k = "experimental" ->
         {Obj([enableCodeSplitting |-> Undefined]),
          Obj([enableCodeSplitting |-> Bool(FALSE)]),
          Obj([enableCodeSplitting |-> Bool(TRUE)])}

\* an inline key may also be present with the value undefined; in a file such
\* a key parses as a missing one
Values(src, k) ==
  DeclaredValues(src, k) \cup (IF src = "inline" THEN {Undefined} ELSE {})

\* the raw configuration objects of a source with at most n keys
RawConfigs(src, n) ==
  UNION {
    {raw \in [S -> UNION {Values(src, k) : k \in S}] :
       \A k \in S : raw[k] \in Values(src, k)} :
    S \in {T \in SUBSET Keys : Cardinality(T) <= n}}

\* getConfig's inlineConfig argument
InlineConfigs == RawConfigs("inline", MaxInlineKeys)

\* a file's content: a raw configuration object, or one that fails to load
FileContents ==
  {[ok |-> TRUE, value |-> raw] : raw \in RawConfigs("file", MaxFileKeys)}
    \cup {[ok |-> FALSE, value |-> <<>>]}

\* the script module beside a declarative file, when both exist
SecondContent ==
  [ok |-> TRUE, value |-> [k \in {"routesDirectory"} |-> Str(<<"other">>)]]

JsonPathIn(d) == d \o <<"/">> \o JsonConfigName
JsPathIn(d) == d \o <<"/">> \o JsConfigName

FileSystems ==
  {<<>>}
    \cup {[p \in {JsonPathIn(d)} |-> c] : d \in FsDirectories, c \in FileContents}
    \cup {[p \in {JsPathIn(d)} |-> c] : d \in FsDirectories, c \in FileContents}
    \cup {[p \in {JsonPathIn(d), JsPathIn(d)} |->
             IF p = JsonPathIn(d) THEN c ELSE SecondContent] :
          d \in FsDirectories, c \in FileContents}

----------------------------------------------------------------------------
Init ==
  /\ fs \in FileSystems
  /\ pc = "idle"
  /\ inlineConfig = Undefined
  /\ configDirectory = Undefined
  /\ queryDirectory = Undefined
  /\ queryResult = Undefined
  /\ configFilePath = Undefined
  /\ fileSystemConfig = Undefined
  /\ parsed = Undefined
  /\ config = Undefined
  /\ error = "none"

\* resolveConfigPath({ configDirectory }) called on its own
ResolveConfigPathCall ==
  /\ pc = "idle"
  /\ \E dirArg \in DirectoryArgs :
       /\ IsDefined(dirArg)
       /\ queryDirectory' = dirArg
       /\ queryResult' = ResolveConfigPath(dirArg.v)
  /\ pc' = "resolved"
  /\ UNCHANGED <<fs, inlineConfig, configDirectory, configFilePath,
                 fileSystemConfig, parsed, config, error>>

\* getConfig(inlineConfig, configDirectory) up to its await, or to its end
\* when no file is loaded
GetConfig ==
  /\ pc = "idle"
  /\ \E inlineRaw \in InlineConfigs, dirArg \in DirectoryArgs :
       LET dir == DefaultedDirectory(dirArg)
           path == ResolveConfigPath(dir)
           extname == IF IsDefined(path) THEN ExtName(path.v) ELSE <<>>
       IN /\ inlineConfig' = Obj(inlineRaw)
          /\ configDirectory' = dirArg
          /\ configFilePath' = path
          /\ IF IsDefined(path) /\ extname \in LoaderExtensions
             THEN IF extname = <<".", "json">>
                  THEN \* JSON.parse(readFileSync(path)), then the await
                       IF fs[path.v].ok
                       THEN /\ fileSystemConfig' = Obj(fs[path.v].value)
                            /\ pc' = "awaiting"
                            /\ UNCHANGED <<parsed, config, error>>
                       ELSE /\ pc' = "failed"
                            /\ error' = "LoadFailure"
                            /\ UNCHANGED <<fileSystemConfig, parsed, config>>
                  ELSE \* tsImport(fileURL) is pending
                       /\ pc' = "importing"
                       /\ UNCHANGED <<fileSystemConfig, parsed, config, error>>
             ELSE /\ Complete(inlineRaw, dir)
                  /\ UNCHANGED fileSystemConfig
  /\ UNCHANGED <<fs, queryDirectory, queryResult>>

\* the script module has been evaluated: its default export, or its failure
TsImport ==
  /\ pc = "importing"
  /\ IF fs[configFilePath.v].ok
     THEN /\ fileSystemConfig' = Obj(fs[configFilePath.v].value)
          /\ pc' = "awaiting"
          /\ UNCHANGED error
     ELSE /\ pc' = "failed"
          /\ error' = "LoadFailure"
          /\ UNCHANGED fileSystemConfig
  /\ UNCHANGED <<fs, inlineConfig, configDirectory, queryDirectory, queryResult,
                 configFilePath, parsed, config>>

\* getConfig after its await: merge, parse, normalize, validate
Resume ==
  /\ pc = "awaiting"
  /\ Complete(Merge(fileSystemConfig.v, inlineConfig.v),
              DefaultedDirectory(configDirectory))
  /\ UNCHANGED <<fs, inlineConfig, configDirectory, queryDirectory, queryResult,
                 configFilePath, fileSystemConfig>>

Next ==
  \/ ResolveConfigPathCall
  \/ GetConfig
  \/ TsImport
  \/ Resume

Spec == Init /\ [][Next]_vars

----------------------------------------------------------------------------
(* Properties *)

Done == pc \in {"returned", "failed"}
FileLoaded == Done /\ IsDefined(fileSystemConfig)
InlineRaw == inlineConfig.v
\* what the loaded file declares; nothing when no file was loaded
FileRaw == IF IsDefined(fileSystemConfig) THEN fileSystemConfig.v ELSE <<>>

\* the absolute directory each configDirectory argument denotes
AbsoluteDirectory(dirArg) ==
  CASE dirArg = Undefined -> cwd
    [] dirArg = Str(<<>>) -> cwd
    [] dirArg = Str(ProjDir) -> ProjDir
    [] dirArg = Str(RelativeProjDir) -> ProjDir

\* precedence by defined value: inline, else file, else none (the default)
SuppliedValue(k) ==
  IF IsDefined(Get(InlineRaw, k)) THEN Get(InlineRaw, k)
  ELSE IF IsDefined(Get(FileRaw, k)) THEN Get(FileRaw, k)
  ELSE Undefined

\* precedence by key: an inline key, even one holding undefined, hides the file's
KeyedValue(k) ==
  IF k \in DOMAIN InlineRaw THEN InlineRaw[k] ELSE Get(FileRaw, k)

\* the Configuration that results from the declared value sel(k) of each field
ResultOf(sel(_)) ==
  NormalizePaths(RewriteExtension([k \in Keys |-> ParseField(k, sel(k))]),
                 DefaultedDirectory(configDirectory))

\* the returned Configuration is the one the declared values sel(k) give
Follows(sel(_)) ==
  /\ \A k \in Keys : IsDefined(sel(k)) => ShapeOk(k, sel(k))
  /\ config.v = ResultOf(sel)

\* C1 as stated: after a file was loaded, every field of the returned
\* Configuration comes from the inline value if inlineConfig supplies one,
\* else from the file's value if the file supplies one, else from the default.
C1_SuppliedPrecedence ==
  (pc = "returned" /\ FileLoaded) => Follows(SuppliedValue)

\* C1 amended: after a file was loaded, every field of the returned
\* Configuration comes from inlineConfig's value if inlineConfig has the key
\* (the schema default when that value is undefined, never the file's value),
\* else from the file's value if the file has it, else from the schema default.
C1_KeyPrecedence ==
  (pc = "returned" /\ FileLoaded) => Follows(KeyedValue)

\* C1 witness: a file declaring routesDirectory "a" and an inline routesDirectory "b" resolved from "b".
C1_Witness ==
  /\ pc = "returned" /\ FileLoaded
  /\ configDirectory = Str(ProjDir)
  /\ Get(FileRaw, "routesDirectory") = Str(<<"a">>)
  /\ Get(InlineRaw, "routesDirectory") = Str(<<"b">>)
  /\ config.v.routesDirectory = <<"/", "proj", "/", "b">>

\* C2: resolveConfigPath returns the absolute path of tsr.config.json whenever
\* it exists in the directory, that of tsr.config.js only when tsr.config.json
\* does not exist, and undefined when neither exists.
C2_DeclarativeFileFirst ==
  pc = "resolved" =>
    LET d == AbsoluteDirectory(queryDirectory) IN
      /\ JsonPathIn(d) \in DOMAIN fs => queryResult = Str(JsonPathIn(d))
      /\ (JsonPathIn(d) \notin DOMAIN fs /\ JsPathIn(d) \in DOMAIN fs)
           => queryResult = Str(JsPathIn(d))
      /\ (JsonPathIn(d) \notin DOMAIN fs /\ JsPathIn(d) \notin DOMAIN fs)
           => queryResult = Undefined

\* C2 witness: both files exist in the directory and the declarative one is returned.
C2_Witness ==
  /\ pc = "resolved"
  /\ queryDirectory = Str(RelativeProjDir)
  /\ {JsonPathIn(ProjDir), JsPathIn(ProjDir)} \subseteq DOMAIN fs
  /\ queryResult = Str(<<"/", "proj", "/", "tsr", ".", "config", ".", "json">>)

\* C3 as stated: every returned Configuration has absolute routesDirectory and
\* generatedRouteTree, for any configDirectory argument, the empty string too.
C3_AlwaysAbsolute ==
  pc = "returned" =>
    /\ IsAbsolute(config.v.routesDirectory)
    /\ IsAbsolute(config.v.generatedRouteTree)

\* C3 amended: every Configuration returned for a configDirectory that is
\* omitted or a non-empty string (absolute or relative) has absolute
\* routesDirectory and generatedRouteTree.
C3_AbsoluteUnlessEmptyDirectory ==
  (pc = "returned" /\ configDirectory # Str(<<>>)) =>
    /\ IsAbsolute(config.v.routesDirectory)
    /\ IsAbsolute(config.v.generatedRouteTree)

\* C3 witness: a call with a relative configDirectory returned absolute paths.
C3_Witness ==
  /\ pc = "returned"
  /\ configDirectory = Str(RelativeProjDir)
  /\ config.v.routesDirectory = <<"/", "proj", "/", "src", "/", "routes">>
  /\ IsAbsolute(config.v.generatedRouteTree)

TypedExtensions == {<<".", "ts">>, <<".", "tsx">>}

\* C4: every returned Configuration with disableTypes true has a
\* generatedRouteTree whose extension is not .ts or .tsx.
C4_NoTypedExtension ==
  (pc = "returned" /\ config.v.disableTypes) =>
    ExtName(config.v.generatedRouteTree) \notin TypedExtensions

\* C5: a returned Configuration has different indexToken and routeToken, a
\* routeFileIgnorePrefix that does not trim to "_", and no defined
\* experimental.enableCodeSplitting (false included).
C5_NoPartialSuccess ==
  pc = "returned" =>
    /\ config.v.indexToken # config.v.routeToken
    /\ Trim(config.v.routeFileIgnorePrefix) # <<"_">>
    /\ \/ ~IsDefined(config.v.experimental)
       \/ ~IsDefined(config.v.experimental.v.enableCodeSplitting)

\* C5 witness: a call returned a Configuration with an experimental object that sets no flag.
C5_Witness ==
  /\ pc = "returned"
  /\ IsDefined(config.v.experimental)
  /\ config.v.indexToken = <<"x">>

\* the merged configuration exists: loading and the schema parse succeeded
Merged == Done /\ IsDefined(parsed)
DeprecatedFlagSet == IsDefined(EnableCodeSplitting(parsed.v))
TokensCollide == parsed.v.indexToken = parsed.v.routeToken
ReservedPrefix == Trim(parsed.v.routeFileIgnorePrefix) = <<"_">>

\* C6 as stated: equal indexToken and routeToken in the merged configuration
\* make getConfig fail with the token-collision error, whatever the other
\* fields are.
C6_CollisionAlways ==
  (Merged /\ TokensCollide) => (pc = "failed" /\ error = "TokenCollision")

\* C6 amended: equal indexToken and routeToken in the merged configuration make
\* getConfig fail; with the token-collision error whenever
\* experimental.enableCodeSplitting is undefined, whatever the remaining fields
\* are, and with the deprecated-flag error when it is defined.
C6_CollisionUnlessDeprecatedFlag ==
  (Merged /\ TokensCollide) =>
    /\ pc = "failed"
    /\ error = IF DeprecatedFlagSet THEN "DeprecatedFlag" ELSE "TokenCollision"

\* C6 witness: equal tokens and a reserved ignore prefix, failed with the token-collision error.
C6_Witness ==
  /\ Merged /\ TokensCollide
  /\ parsed.v.indexToken = <<"x">>
  /\ ReservedPrefix
  /\ error = "TokenCollision"

\* C9: the checks run in the order deprecated flag, token collision, ignore
\* prefix, and getConfig fails with the error of the first violated check alone.
C9_FirstFailureWins ==
  Merged =>
    error = IF DeprecatedFlagSet THEN "DeprecatedFlag"
            ELSE IF TokensCollide THEN "TokenCollision"
            ELSE IF ReservedPrefix THEN "ReservedIgnorePrefix"
            ELSE "none"

\* C9 witness: all three checks violated, failed with the deprecated-flag error.
C9_Witness ==
  /\ Merged
  /\ DeprecatedFlagSet /\ TokensCollide /\ ReservedPrefix
  /\ pc = "failed"
  /\ error = "DeprecatedFlag"

\* C7 as stated: when getConfig is called without a resolution directory, the
\* returned routesDirectory and generatedRouteTree are the declared strings,
\* not rewritten by path normalization.
C7_OmittedKeepsDeclared ==
  (pc = "returned" /\ configDirectory = Undefined) =>
    /\ config.v.routesDirectory = parsed.v.routesDirectory
    /\ config.v.generatedRouteTree = RewriteExtension(parsed.v).generatedRouteTree

\* C7 amended: when getConfig is called with the empty string as resolution
\* directory, the returned routesDirectory and generatedRouteTree are the
\* declared strings, not rewritten by path normalization; when the directory
\* is omitted they are resolved against the working directory.
C7_EmptyKeepsDeclared ==
  pc = "returned" =>
    /\ configDirectory = Str(<<>>) =>
         /\ config.v.routesDirectory = parsed.v.routesDirectory
         /\ config.v.generatedRouteTree
              = RewriteExtension(parsed.v).generatedRouteTree
    /\ configDirectory = Undefined =>
         /\ config.v.routesDirectory
              = PathResolve(<<cwd, parsed.v.routesDirectory>>)
         /\ config.v.generatedRouteTree
              = PathResolve(<<cwd, RewriteExtension(parsed.v).generatedRouteTree>>)

\* C7 witness: a call with the empty configDirectory returned the declared default paths.
C7_Witness ==
  /\ pc = "returned"
  /\ configDirectory = Str(<<>>)
  /\ config.v.routesDirectory = <<".", "/", "src", "/", "routes">>
  /\ config.v.generatedRouteTree
       = <<".", "/", "src", "/", "routeTree", ".", "gen", ".", "ts">>

\* the default export of the end-to-end scenario's tsr.config.js:
\* { disableLogging: true, routesDirectory: "./configured-routes-path" }
FixtureConfig ==
  [k \in {"disableLogging", "routesDirectory"} |->
     IF k = "disableLogging" THEN Bool(TRUE) ELSE Str(ConfiguredRoutesPath)]

\* the directory of the end-to-end scenario holds only that tsr.config.js
FixtureDirectory ==
  /\ DOMAIN fs = {JsPathIn(ProjDir)}
  /\ fs[JsPathIn(ProjDir)].ok
  /\ fs[JsPathIn(ProjDir)].value = FixtureConfig

FixtureCall ==
  /\ FixtureDirectory
  /\ Done
  /\ configDirectory = Str(ProjDir)
  /\ DOMAIN InlineRaw = {}

FixtureQuery ==
  (FixtureDirectory /\ pc = "resolved" /\ queryDirectory = Str(ProjDir)) =>
    queryResult = Str(<<"/", "proj", "/", "tsr", ".", "config", ".", "js">>)

C10_ShallowScaffolding ==
  pc = "returned" =>
    /\ ("customScaffolding" \in DOMAIN FileRaw \cap DOMAIN InlineRaw) =>
         \A f \in TemplateKeys :
           config.v.customScaffolding[f] =
             IF /\ IsDefined(InlineRaw["customScaffolding"])
                /\ IsDefined(InlineRaw["customScaffolding"].v[f])
             THEN InlineRaw["customScaffolding"].v[f].v
             ELSE defaultTemplate[f]
    /\ ("customScaffolding" \notin DOMAIN FileRaw \cup DOMAIN InlineRaw) =>
         config.v.customScaffolding = defaultTemplate

\* C10 witness: the file sets routeTemplate, the inline overrides set apiTemplate only.
C10_Witness ==
  /\ pc = "returned" /\ FileLoaded
  /\ Get(FileRaw, "customScaffolding")
       = Obj([routeTemplate |-> Str(<<"file-routeTemplate">>), apiTemplate |-> Undefined])
  /\ Get(InlineRaw, "customScaffolding")
       = Obj([routeTemplate |-> Undefined, apiTemplate |-> Str(<<"inline-apiTemplate">>)])
  /\ config.v.customScaffolding
       = [routeTemplate |-> <<"defaultRouteTemplate">>,
          apiTemplate |-> <<"inline-apiTemplate">>]
====
